---- MODULE Spec2Model ----
(***************************************************************************)
(* A model of atcommander.c: the AT-command session of a host that talks   *)
(* to a serial device (RN-42, XBee) over a UART whose baud rate is not     *)
(* known in advance.                                                       *)
(*                                                                         *)
(* The state is the AtCommanderConfig of one session (connected, baud,     *)
(* device_baud, the platform profile and which of the function pointers    *)
(* are set) together with a record of the last public call: its name, its  *)
(* argument, its result, the transport calls it made (trace), the          *)
(* diagnostics it logged (diag), the internal calls it made (calls) and    *)
(* the config fields as they were when it was called (pre).  twin is what  *)
(* the same call, with the same inputs, does in the session that differs   *)
(* from this one only in that its log_function is not set.  reads has, for *)
(* every read of the call that returned, the size asked for, the bytes     *)
(* returned and the polls and empty polls made.  out is what a private     *)
(* function returned that does not return a bool, when it is called on its *)
(* own.                                                                    *)
(*                                                                         *)
(* Strings are sequences of one-character strings; "CR" and "LF" stand for *)
(* \r and \n, "%d" for the conversion in a request format.  A char*        *)
(* is a record [null, s], so that a NULL descriptor is a value of its own. *)
(*                                                                         *)
(* Every public function is one action.  What the device puts on the line  *)
(* is an input of the action: one script of read_function results for each *)
(* request the call makes.  Where the code has undefined behaviour the     *)
(* action takes the outcome as one more input.                             *)
(***************************************************************************)
EXTENDS Integers, Sequences, FiniteSets, TLC

VARIABLES connected, baud, device_baud, platform, caps,
          op, arg, ret, trace, diag, calls, pre, twin, reads, out

vars == <<connected, baud, device_baud, platform, caps,
          op, arg, ret, trace, diag, calls, pre, twin, reads, out>>

(***************************************************************************)
(* Constants of the program.                                               *)
(***************************************************************************)
RETRY_DELAY_MS == 50
MAX_RESPONSE_LENGTH == 8
MAX_RETRIES == 3
\* char command[5] in at_commander_set_baud
COMMAND_SIZE == 5
\* the size at_commander_reboot passes to write
REBOOT_SIZE == 5
\* atcommander.h is not part of the sources at hand.  The candidate list
\* follows the specification: it starts 1200, 9600 and spans 1200-115200.
\* The specification gives no value for the default settle delay; the value
\* only labels the delay events of the RN-42 profile.
DEFAULT_RESPONSE_DELAY_MS == 100
XBEE_RESPONSE_DELAY_MS == 3000
ALL_VALID_BAUD_RATES == <<1200, 9600, 19200, 38400, 57600, 115200>>

(***************************************************************************)
(* Bounds of the model.                                                    *)
(***************************************************************************)
\* how many entries of the candidate list a discovery pass walks
NumCandidates == 2

VALID_BAUD_RATES == SubSeq(ALL_VALID_BAUD_RATES, 1, NumCandidates)

\* how many results of read_function a device script of the private
\* functions spells out; after them read_function has no byte any more
MaxPolls == 5
\* the sizes and the retry budgets read is called with on its own
MaxLen == 3
MaxRetries == 3

(***************************************************************************)
(* Strings and descriptors.                                                *)
(***************************************************************************)
Str(chars) == [null |-> FALSE, s |-> chars]
NULL == [null |-> TRUE, s |-> <<>>]
Descriptor(req, exp) == [request_format |-> req, expected_response |-> exp]

\* what read_function returns when no byte is available
NONE == "-1"
\* a byte whose value the program does not determine
UNKNOWN == "?"
\* a byte no expected response contains
WRONG == "X"

AT_PLATFORM_RN42 ==
    [name |-> "RN42",
     response_delay_ms |-> DEFAULT_RESPONSE_DELAY_MS,
     baud_rate_mapper |-> "NULL",
     enter_command_mode_command |->
        Descriptor(Str(<<"$", "$", "$">>), Str(<<"C", "M", "D", "CR", "LF">>)),
     exit_command_mode_command |->
        Descriptor(Str(<<"-", "-", "-">>), Str(<<"E", "N", "D", "CR", "LF">>)),
     set_baud_rate_command |->
        Descriptor(Str(<<"S", "U", ",", "%d", "CR", "LF">>),
                   Str(<<"A", "O", "K", "CR", "LF">>)),
     store_settings_command |-> Descriptor(NULL, NULL),
     reboot_command |-> Descriptor(Str(<<"R", ",", "1", "CR", "LF">>), NULL)]

AT_PLATFORM_XBEE ==
    [name |-> "XBEE",
     response_delay_ms |-> XBEE_RESPONSE_DELAY_MS,
     baud_rate_mapper |-> "xbee_baud_rate_mapper",
     enter_command_mode_command |->
        Descriptor(Str(<<"+", "+", "+">>), Str(<<"O", "K">>)),
     exit_command_mode_command |-> Descriptor(NULL, NULL),
     set_baud_rate_command |->
        Descriptor(Str(<<"A", "T", "B", "D", " ", "%d", "CR", "LF">>),
                   Str(<<"O", "K", "CR", "LF">>)),
     store_settings_command |->
        Descriptor(Str(<<"A", "T", "W", "R", "CR", "LF">>),
                   Str(<<"O", "K", "CR", "LF">>)),
     reboot_command |-> Descriptor(NULL, NULL)]

Platforms == {AT_PLATFORM_RN42, AT_PLATFORM_XBEE}

\* the function pointers of AtCommanderConfig: TRUE when set, FALSE when NULL
Capabilities ==
    [write_function : BOOLEAN, read_function : BOOLEAN,
     delay_function : BOOLEAN, baud_rate_initializer : BOOLEAN,
     log_function : BOOLEAN]

(***************************************************************************)
(* The run of one call.  s carries the config fields the call may change,  *)
(* what the call has done so far, the response buffer of the last read     *)
(* (buf), the value the last function returned (ok) and whether the        *)
(* process has aborted (ab).  Once it has aborted nothing more happens.    *)
(* s.log tells whether config->log_function is set, s.lub what a sink does *)
(* that is handed a string without a terminator.                           *)
(***************************************************************************)
Ev(k, c, n) == [k |-> k, c |-> c, n |-> n]
Emit(s, e) == [s EXCEPT !.tr = Append(@, e)]
Call(s, f, c, n) == [s EXCEPT !.cl = Append(@, [f |-> f, c |-> c, n |-> n])]
Abort(s) == [s EXCEPT !.ab = TRUE, !.ok = FALSE]
Return(s, value) == IF s.ab THEN s ELSE [s EXCEPT !.ok = value]

\* the debug macro: log_function(message), log_function("\r\n")
debug(s, id, a, b) ==
    IF s.ab \/ ~s.log THEN s
    ELSE [s EXCEPT !.dg = Append(@, [id |-> id, a |-> a, b |-> b])]

\* bytes[i] of a C string: its characters, its terminator, then whatever
\* follows it in memory
ByteAt(chars, i) ==
    IF i <= Len(chars) THEN chars[i]
    ELSE IF i = Len(chars) + 1 THEN "NUL" ELSE UNKNOWN

\* What a NULL char* reads as on a build where reading address 0 does not
\* trap: a string of bytes the program does not determine.
GarbageString == <<UNKNOWN, UNKNOWN>>

RECURSIVE WriteLoop(_, _, _, _)
WriteLoop(s, chars, size, i) ==
    IF i > size THEN s
    ELSE WriteLoop(Emit(s, Ev("write", ByteAt(chars, i), 0)), chars, size, i + 1)

\* write(config, bytes, size).  nullub is the outcome of reading through a
\* NULL bytes pointer: "abort" (the read traps) or "garbage".
write(s, bytes, size, nullub) ==
    IF s.ab THEN s
    ELSE IF ~caps.write_function THEN s
    ELSE IF size <= 0 THEN s
    ELSE IF bytes.null /\ nullub = "abort" THEN Abort(s)
    ELSE IF bytes.null
         THEN WriteLoop(s, [i \in 1..size |-> UNKNOWN], size, 1)
         ELSE WriteLoop(s, bytes.s, size, 1)

delay_ms(s, ms) ==
    IF s.ab THEN s
    ELSE IF caps.delay_function THEN Emit(s, Ev("delay", "", ms)) ELSE s

\* the k-th result of read_function: the script, then no byte any more
Poll(script, k) == IF k <= Len(script) THEN script[k] ELSE NONE

\* The loop of read with retries set back to 0 by every byte received
RECURSIVE ReadLoop_resetting(_, _, _, _, _, _)
ReadLoop_resetting(s, size, max_retries, script, retries, polls) ==
    IF ~(Len(s.buf) < size /\ retries < max_retries) THEN s
    ELSE IF ~caps.read_function THEN Abort(s)
    ELSE LET byte == Poll(script, polls + 1)
             s1 == Emit(s, Ev("read", byte, 0))
         IN  IF byte = NONE
             THEN ReadLoop_resetting(delay_ms(s1, RETRY_DELAY_MS), size,
                                     max_retries, script, retries + 1, polls + 1)
             ELSE ReadLoop_resetting([s1 EXCEPT !.buf = Append(@, byte)], size,
                                     max_retries, script, 0, polls + 1)

\* The loop of read.  Calling a NULL read_function does not return to the
\* caller on any build (a trap, a fault or a jump to the reset vector).
RECURSIVE ReadLoop(_, _, _, _, _, _)
ReadLoop(s, size, max_retries, script, retries, polls) ==
    IF ~(Len(s.buf) < size /\ retries < max_retries) THEN s
    ELSE IF ~caps.read_function THEN Abort(s)
    ELSE LET byte == Poll(script, polls + 1)
             s1 == Emit(s, Ev("read", byte, 0))
         IN  IF byte = NONE
             THEN ReadLoop(delay_ms(s1, RETRY_DELAY_MS), size, max_retries,
                           script, retries + 1, polls + 1)
             ELSE ReadLoop([s1 EXCEPT !.buf = Append(@, byte)], size,
                           max_retries, script, retries, polls + 1)

\* what a read that went from run s to run r did: the events after those
\* of s are its polls and its retry delays
ReadRecord(s, r, size, max_retries) ==
    LET done == SubSeq(r.tr, Len(s.tr) + 1, Len(r.tr))
        IsPoll(e) == e.k = "read"
        IsEmpty(e) == e.k = "read" /\ e.c = NONE
    IN  [size |-> size, max_retries |-> max_retries, bytes |-> Len(r.buf),
         polls |-> Len(SelectSeq(done, IsPoll)),
         empty |-> Len(SelectSeq(done, IsEmpty))]

\* the run r of a read that started in run s, with its record when it
\* returned
Recorded(s, r, size, max_retries) ==
    IF r.ab THEN r
    ELSE [r EXCEPT !.rd = Append(@, ReadRecord(s, r, size, max_retries))]

\* read(config, buffer, size, max_retries): s.buf holds the bytes read
read(s, size, max_retries, script) ==
    IF s.ab THEN s
    ELSE Recorded(s, ReadLoop([s EXCEPT !.buf = <<>>], size, max_retries,
                              script, 0, 0),
                  size, max_retries)

\* a byte of the response is the terminator of a C string
Terminated(response) == \E i \in 1..Len(response) : response[i] = "NUL"

\* What a sink does that formats "%s" of a response without a terminator:
\* the bytes read never stand for a NUL, response[bytes_read] onwards is
\* not initialized, and the array ends after MAX_RESPONSE_LENGTH bytes.
\* The sink logs bytes the program does not determine ("garbage") or the
\* read past the bytes received stops the process ("abort").
SinkOutcomes == {"garbage", "abort"}

\* debug(config, "Expected %s response but got %s", expected, response)
debug_strings(s, response) ==
    LET s1 == debug(s, "Expected %s response but got %s", 0, 0)
    IN  IF ~s.ab /\ s.log /\ ~Terminated(response) /\ s.lub = "abort"
        THEN Abort(s1) ELSE s1

\* check_response that logs the two lengths on every mismatch
check_response_always_length(s, response, expected) ==
    IF s.ab THEN s
    ELSE IF Len(response) = Len(expected) /\ response = expected
    THEN Return(s, TRUE)
    ELSE LET s1 == debug(s, "Expected %d bytes in response but received %d",
                         Len(expected), Len(response))
             s2 == IF Len(response) > 0
                   THEN debug_strings(s1, response)
                   ELSE s1
         IN  Return(s2, FALSE)

check_response(s, response, expected) ==
    IF s.ab THEN s
    ELSE IF Len(response) = Len(expected) /\ response = expected
    THEN Return(s, TRUE)
    ELSE LET s1 == IF Len(response) # Len(expected)
                   THEN debug(s, "Expected %d bytes in response but received %d",
                              Len(expected), Len(response))
                   ELSE s
             s2 == IF Len(response) > 0
                   THEN debug_strings(s1, response)
                   ELSE s1
         IN  Return(s2, FALSE)

\* command_request that sends the command and reads the response a second
\* time when the first response does not match
command_request_twice(s, command, expected_response, script, nullub) ==
    LET Once(x) ==
          IF x.ab THEN x
          ELSE IF command.null /\ nullub = "abort" THEN Abort(x)
          ELSE LET cmd == IF command.null THEN GarbageString ELSE command.s
                   exp == IF expected_response.null THEN GarbageString
                          ELSE expected_response.s
                   s0 == Call(x, "command_request", cmd, 0)
                   s1 == write(s0, Str(cmd), Len(cmd), nullub)
                   s2 == delay_ms(s1, platform.response_delay_ms)
                   s3 == IF expected_response.null /\ nullub = "abort"
                         THEN Abort(s2)
                         ELSE read(s2, Len(exp), MAX_RETRIES, script)
                   s4 == check_response(s3, s3.buf, exp)
               IN  IF s4.ab THEN s4
                   ELSE Call(s4, "command_request returned", <<>>,
                             IF s4.ok THEN 1 ELSE 0)
        first == Once(s)
    IN  IF first.ab \/ first.ok THEN first ELSE Once(first)

\* command_request(config, command, expected_response).  script is what
\* read_function returns during this request; nullub is the outcome of
\* strlen on a NULL pointer.
\* the end of command_request: s3 is the run after the read, s4 the run
\* after check_response
CheckRead(s3, exp) == check_response(s3, s3.buf, exp)
RequestReturns(s4) ==
    IF s4.ab THEN s4
    ELSE Call(s4, "command_request returned", <<>>, IF s4.ok THEN 1 ELSE 0)

command_request(s, command, expected_response, script, nullub) ==
    IF s.ab THEN s
    ELSE IF command.null /\ nullub = "abort" THEN Abort(s)
    ELSE LET cmd == IF command.null THEN GarbageString ELSE command.s
             exp == IF expected_response.null THEN GarbageString
                    ELSE expected_response.s
             s0 == Call(s, "command_request", cmd, 0)
             s1 == write(s0, Str(cmd), Len(cmd), nullub)
             s2 == delay_ms(s1, platform.response_delay_ms)
             s3 == IF expected_response.null /\ nullub = "abort"
                   THEN Abort(s2)
                   ELSE read(s2, Len(exp), MAX_RETRIES, script)
         IN  RequestReturns(CheckRead(s3, exp))

\* initialize_baud with the assignment to config->baud left out
initialize_baud_unrecorded(s, b) ==
    IF s.ab THEN s
    ELSE IF caps.baud_rate_initializer
    THEN LET s1 == debug(s, "Initializing at baud %d", b, 0)
             s2 == Emit(s1, Ev("set_baud", "", b))
         IN  Return(s2, TRUE)
    ELSE Return(debug(s, "No baud rate initializer set", 0, 0), FALSE)

initialize_baud(s, b) ==
    IF s.ab THEN s
    ELSE IF caps.baud_rate_initializer
    THEN LET s1 == debug(s, "Initializing at baud %d", b, 0)
             s2 == Emit(s1, Ev("set_baud", "", b))
         IN  Return([s2 EXCEPT !.baud = b], TRUE)
    ELSE Return(debug(s, "No baud rate initializer set", 0, 0), FALSE)

(***************************************************************************)
(* What the device sends.  A script is the sequence of results             *)
(* read_function gives during one request (after it, no byte any more).    *)
(* The kinds are relative to the response the request expects.             *)
(***************************************************************************)
ScriptKinds == {"full", "short", "wrong", "silent"}
SuccessKinds == {"full"}

Script(kind, expected) ==
    LET n == Len(expected)
    IN  CASE kind = "full" -> expected
          \* an empty poll in the middle, all but the last byte, then silence
          [] kind = "short" ->
                IF n <= 1 THEN <<>>
                ELSE <<expected[1], NONE>> \o SubSeq(expected, 2, n - 1)
          \* the right length, a wrong last byte
          [] kind = "wrong" ->
                IF n = 0 THEN <<>>
                ELSE SubSeq(expected, 1, n - 1) \o <<WRONG>>
          \* kind = "silent": no byte at all
          [] OTHER -> <<>>

\* the response a descriptor makes command_request expect
Expected(descriptor) ==
    IF descriptor.expected_response.null THEN GarbageString
    ELSE descriptor.expected_response.s

(***************************************************************************)
(* The session state machine.                                              *)
(***************************************************************************)
\* The loop of at_commander_enter_command_mode from baud_index on (1-based).
\* kinds[i] is what the device does during the i-th probe.
RECURSIVE EnterLoop(_, _, _)

\* the loop after the request of the candidate at baud_index, whose run is s3
AfterProbe(s3, kinds, baud_index) ==
    IF s3.ab THEN s3
    ELSE IF s3.ok THEN [s3 EXCEPT !.connected = TRUE]
    ELSE EnterLoop(s3, kinds, baud_index + 1)

EnterLoop(s, kinds, baud_index) ==
    IF s.ab \/ baud_index > Len(VALID_BAUD_RATES) THEN s
    ELSE LET b == VALID_BAUD_RATES[baud_index]
             s0 == Call(s, "initialize_baud", <<>>, b)
             s1 == initialize_baud(s0, b)
             s2 == debug(s1, "Attempting to enter command mode", 0, 0)
             cmd == platform.enter_command_mode_command
         IN  AfterProbe(command_request(s2, cmd.request_format,
                                        cmd.expected_response,
                                        Script(kinds[baud_index], Expected(cmd)),
                                        "abort"),
                        kinds, baud_index)

\* at_commander_enter_command_mode without the test of config->connected
enter_command_mode_unguarded(s, kinds) ==
    IF s.ab THEN s
    ELSE LET s1 == EnterLoop(s, kinds, 1)
             s2 == IF s1.connected
                   THEN debug(s1, "Initialized UART and entered command mode at baud %d",
                              s1.baud, 0)
                   ELSE debug(s1, "Unable to enter command mode at any baud rate", 0, 0)
         IN  Return(s2, s2.connected)

\* at_commander_enter_command_mode that puts config->baud back when no
\* candidate answers
enter_command_mode_restoring(s, kinds) ==
    IF s.ab THEN s
    ELSE IF ~s.connected
    THEN LET s1 == EnterLoop(s, kinds, 1)
             s2 == IF s1.connected
                   THEN debug(s1, "Initialized UART and entered command mode at baud %d",
                              s1.baud, 0)
                   ELSE [debug(s1, "Unable to enter command mode at any baud rate", 0, 0)
                            EXCEPT !.baud = s.baud]
         IN  Return(s2, s2.connected)
    ELSE Return(debug(s, "Already in command mode", 0, 0), s.connected)

\* at_commander_enter_command_mode after its loop, whose run is s1
AfterEnterLoop(s1) ==
    Return(IF s1.connected
           THEN debug(s1, "Initialized UART and entered command mode at baud %d",
                      s1.baud, 0)
           ELSE debug(s1, "Unable to enter command mode at any baud rate", 0, 0),
           s1.connected)

at_commander_enter_command_mode(s, kinds) ==
    IF s.ab THEN s
    ELSE IF ~s.connected
    THEN AfterEnterLoop(EnterLoop(s, kinds, 1))
    ELSE Return(debug(s, "Already in command mode", 0, 0), s.connected)

\* at_commander_exit_command_mode with config->connected cleared when the
\* exit request fails, too
exit_command_mode_clearing(s, kind, nullub) ==
    IF s.ab THEN s
    ELSE IF s.connected
    THEN LET cmd == platform.exit_command_mode_command
             s1 == command_request(s, cmd.request_format, cmd.expected_response,
                                   Script(kind, Expected(cmd)), nullub)
         IN  IF s1.ab THEN s1
             ELSE IF s1.ok
             THEN Return([debug(s1, "Switched back to data mode", 0, 0)
                             EXCEPT !.connected = FALSE], TRUE)
             ELSE Return([debug(s1, "Unable to exit command mode", 0, 0)
                             EXCEPT !.connected = FALSE], FALSE)
    ELSE Return(debug(s, "Not in command mode", 0, 0), TRUE)

at_commander_exit_command_mode(s, kind, nullub) ==
    IF s.ab THEN s
    ELSE IF s.connected
    THEN LET cmd == platform.exit_command_mode_command
             s1 == command_request(s, cmd.request_format, cmd.expected_response,
                                   Script(kind, Expected(cmd)), nullub)
         IN  IF s1.ab THEN s1
             ELSE IF s1.ok
             THEN Return([debug(s1, "Switched back to data mode", 0, 0)
                             EXCEPT !.connected = FALSE], TRUE)
             ELSE Return(debug(s1, "Unable to exit command mode", 0, 0), FALSE)
    ELSE Return(debug(s, "Not in command mode", 0, 0), TRUE)

\* at_commander_reboot that takes the session for Disconnected once the
\* reboot request is written
RebootBody_disconnecting(s1, nullub) ==
    IF s1.ab THEN s1
    ELSE IF s1.ok
    THEN LET s2 == write(s1, platform.reboot_command.request_format,
                         REBOOT_SIZE, nullub)
         IN  Return([debug(s2, "Rebooting RN-42", 0, 0)
                        EXCEPT !.connected = FALSE], TRUE)
    ELSE Return(debug(s1, "Unable to enter command mode, can't reboot", 0, 0),
                FALSE)

\* at_commander_reboot after its call of at_commander_enter_command_mode,
\* whose run is s1
RebootBody(s1, nullub) ==
    IF s1.ab THEN s1
    ELSE IF s1.ok
    THEN LET s2 == write(s1, platform.reboot_command.request_format,
                         REBOOT_SIZE, nullub)
         IN  Return(debug(s2, "Rebooting RN-42", 0, 0), TRUE)
    ELSE Return(debug(s1, "Unable to enter command mode, can't reboot", 0, 0),
                FALSE)

at_commander_reboot(s, kinds, nullub) ==
    RebootBody(at_commander_enter_command_mode(s, kinds), nullub)

at_commander_store_settings(s, kind) ==
    IF s.ab THEN s
    ELSE LET cmd == platform.store_settings_command
             s0 == Call(s, "at_commander_store_settings", <<>>, 0)
         IN  IF ~cmd.request_format.null /\ ~cmd.expected_response.null
             THEN LET s1 == command_request(s0, cmd.request_format,
                                            cmd.expected_response,
                                            Script(kind, Expected(cmd)), "abort")
                  IN  IF s1.ab THEN s1
                      ELSE IF s1.ok
                      THEN Return(debug(s1, "Stored settings into flash memory", 0, 0),
                                  TRUE)
                      ELSE Return(debug(s1, "Unable to store settings in flash memory",
                                        0, 0), FALSE)
             ELSE Return(s0, FALSE)

(***************************************************************************)
(* Baud-value mapping and the formatting of the set-baud request.          *)
(***************************************************************************)
passthrough_baud_rate_mapper(b) == b

\* xbee_baud_rate_mapper with the codes of 9600 and 19200 exchanged
xbee_baud_rate_mapper_exchanged(b, uninit) ==
    CASE b = 1200 -> 0
      [] b = 2300 -> 1
      [] b = 4800 -> 2
      [] b = 9600 -> 4
      [] b = 19200 -> 3
      [] b = 38400 -> 5
      [] b = 57600 -> 6
      [] b = 115200 -> 7
      [] OTHER -> uninit

\* uninit is the value the variable `value` holds when no case assigns it
xbee_baud_rate_mapper(b, uninit) ==
    CASE b = 1200 -> 0
      [] b = 2300 -> 1
      [] b = 4800 -> 2
      [] b = 9600 -> 3
      [] b = 19200 -> 4
      [] b = 38400 -> 5
      [] b = 57600 -> 6
      [] b = 115200 -> 7
      [] OTHER -> uninit

XBeeRates == {1200, 2300, 4800, 9600, 19200, 38400, 57600, 115200}

Digits == <<"0", "1", "2", "3", "4", "5", "6", "7", "8", "9">>

\* %d of a natural number
RECURSIVE ToDec(_)
ToDec(n) ==
    IF n < 10 THEN <<Digits[n + 1]>>
    ELSE ToDec(n \div 10) \o <<Digits[(n % 10) + 1]>>

\* sprintf(command, format, value): the characters written before the
\* terminating NUL
RECURSIVE sprintf(_, _)
sprintf(format, value) ==
    IF format = <<>> THEN <<>>
    ELSE (IF Head(format) = "%d" THEN ToDec(value) ELSE <<Head(format)>>)
         \o sprintf(Tail(format), value)

\* What writing past the end of command[COMMAND_SIZE] does: nothing that
\* shows ("intact"), an abort inside sprintf (a checked sprintf), or an
\* abort when at_commander_set_baud returns (a stack guard, a smashed
\* return address).
OverflowOutcomes == {"intact", "abort_sprintf", "abort_return"}

\* the else branch with config->device_baud assigned all the same
SetBaudFailed_recording(s2, b) ==
    Return([debug(s2, "Unable to change device baud rate", 0, 0)
               EXCEPT !.device_baud = b], FALSE)

\* the else branch of the set-baud request: b was asked for and refused
SetBaudFailed(s2, b) ==
    Return(debug(s2, "Unable to change device baud rate", 0, 0), FALSE)

\* at_commander_set_baud after its call of at_commander_enter_command_mode,
\* whose run is s1.  kset and kstore are what the device does during the
\* set-baud and store requests.
SetBaudBody(s1, b, kset, kstore, uninit, overflow) ==
    IF s1.ab THEN s1
    ELSE IF s1.ok
    THEN LET cmd == platform.set_baud_rate_command
             mapped == IF platform.baud_rate_mapper = "NULL"
                       THEN passthrough_baud_rate_mapper(b)
                       ELSE xbee_baud_rate_mapper(b, uninit)
             command == sprintf(cmd.request_format.s, mapped)
             overflows == Len(command) + 1 > COMMAND_SIZE
             Leave(x) == IF overflows /\ overflow = "abort_return"
                         THEN Abort(x) ELSE x
         IN  IF overflows /\ overflow = "abort_sprintf" THEN Abort(s1)
             ELSE LET s2 == command_request(s1, Str(command),
                                            cmd.expected_response,
                                            Script(kset, Expected(cmd)), "abort")
                  IN  IF s2.ab THEN s2
                      ELSE IF s2.ok
                      THEN LET s3 == debug(s2, "Changed device baud rate to %d",
                                           b, 0)
                               s4 == [s3 EXCEPT !.device_baud = b]
                               s5 == at_commander_store_settings(s4, kstore)
                           IN  Leave(Return(s5, TRUE))
                      ELSE Leave(SetBaudFailed(s2, b))
    ELSE Return(debug(s1, "Unable to enter command mode, can't set baud rate",
                      0, 0), FALSE)

\* at_commander_set_baud(config, baud).  kinds is what the device does during
\* the probes of the enter request.
at_commander_set_baud(s, b, kinds, kset, kstore, uninit, overflow) ==
    SetBaudBody(at_commander_enter_command_mode(s, kinds), b, kset, kstore,
                uninit, overflow)

(***************************************************************************)
(* The state machine of the model.                                         *)
(***************************************************************************)
\* the baud rates a caller asks at_commander_set_baud for
BaudInputs == {9600, 300}
\* values an uninitialized int may hold
UninitValues == {0, 13}
NullOutcomes == {"abort", "garbage"}

KindSeqs == [1..Len(VALID_BAUD_RATES) -> ScriptKinds]

Fields == [connected |-> connected, baud |-> baud, device_baud |-> device_baud]

\* the run of a call, as it starts
BeginAs(log, lub) ==
    [connected |-> connected, baud |-> baud, device_baud |-> device_baud,
     tr |-> <<>>, dg |-> <<>>, cl |-> <<>>, buf |-> <<>>,
     rd |-> <<>>, ok |-> FALSE, ab |-> FALSE, log |-> log, lub |-> lub]

\* in this session, and in the session that has the same config but no
\* log_function
Begin(lub) == BeginAs(caps.log_function, lub)
BeginTwin(lub) == BeginAs(FALSE, lub)

Result(r) == IF r.ab THEN "abort" ELSE IF r.ok THEN "true" ELSE "false"

\* what a caller and the transport see of a run
Observed(r) ==
    [ret |-> Result(r), tr |-> r.tr, connected |-> r.connected,
     baud |-> r.baud, device_baud |-> r.device_baud]

\* the call has run: r is written back to the state, t is the run of the
\* twin session, rv what the caller gets and v the value of a function that
\* returns no bool
CommitAs(name, a, r, t, rv, v) ==
    /\ connected' = r.connected
    /\ baud' = r.baud
    /\ device_baud' = r.device_baud
    /\ op' = name
    /\ arg' = a
    /\ ret' = rv
    /\ trace' = r.tr
    /\ diag' = r.dg
    /\ calls' = r.cl
    /\ pre' = Fields
    /\ twin' = Observed(t)
    /\ reads' = r.rd
    /\ out' = v
    /\ UNCHANGED <<platform, caps>>

\* a function that returns a bool
Commit(name, a, r, t) == CommitAs(name, a, r, t, Result(r), <<>>)

\* a function that returns the value v
CommitValue(name, a, r, t, v) ==
    CommitAs(name, a, r, t, IF r.ab THEN "abort" ELSE "value", v)

Init ==
    /\ connected = FALSE
    /\ baud = 0
    /\ device_baud = 0
    /\ platform \in Platforms
    /\ caps \in Capabilities
    /\ op = "none"
    /\ arg = 0
    /\ ret = "none"
    /\ trace = <<>>
    /\ diag = <<>>
    /\ calls = <<>>
    /\ pre = [connected |-> FALSE, baud |-> 0, device_baud |-> 0]
    /\ twin = [ret |-> "none", tr |-> <<>>, connected |-> FALSE, baud |-> 0,
               device_baud |-> 0]
    /\ reads = <<>>
    /\ out = <<>>

\* No call is running and none has aborted: the caller may make a call.
Idle == op = "none"

\* x when the run goes on, one value of it when the input is never read
Relevant(cond, x) == IF cond THEN x ELSE {CHOOSE v \in x : TRUE}

\* the runs of at_commander_enter_command_mode: in this session and in its
\* twin, for the same device and the same sink
EnterRuns ==
    {<<at_commander_enter_command_mode(Begin(lu), ks),
       at_commander_enter_command_mode(BeginTwin(lu), ks)>> :
        ks \in KindSeqs, lu \in Relevant(caps.log_function, SinkOutcomes)}

\* one of the two runs goes on after command mode is entered
Entered(p) == (~p[1].ab /\ p[1].ok) \/ (~p[2].ab /\ p[2].ok)

EnterCommandMode ==
    /\ Idle
    /\ \E p \in EnterRuns : Commit("enter_command_mode", 0, p[1], p[2])

ExitCommandMode ==
    /\ Idle
    /\ \E k \in Relevant(connected, ScriptKinds),
          nu \in Relevant(connected, NullOutcomes),
          lu \in Relevant(connected /\ caps.log_function, SinkOutcomes) :
          Commit("exit_command_mode", 0,
                 at_commander_exit_command_mode(Begin(lu), k, nu),
                 at_commander_exit_command_mode(BeginTwin(lu), k, nu))

Reboot ==
    /\ Idle
    /\ \E p \in EnterRuns, nu \in NullOutcomes :
          Commit("reboot", 0, RebootBody(p[1], nu), RebootBody(p[2], nu))

StoreSettings ==
    /\ Idle
    /\ \E k \in ScriptKinds, lu \in Relevant(caps.log_function, SinkOutcomes) :
          Commit("store_settings", 0,
                 at_commander_store_settings(Begin(lu), k),
                 at_commander_store_settings(BeginTwin(lu), k))

SetBaud ==
    /\ Idle
    /\ \E b \in BaudInputs, p \in EnterRuns :
       \E kset \in Relevant(Entered(p), ScriptKinds),
          o \in Relevant(Entered(p), OverflowOutcomes),
          u \in Relevant(b \notin XBeeRates, UninitValues) :
       \E kstore \in Relevant(Entered(p) /\ kset \in SuccessKinds
                              /\ o # "abort_sprintf", ScriptKinds) :
          Commit("set_baud", b, SetBaudBody(p[1], b, kset, kstore, u, o),
                 SetBaudBody(p[2], b, kset, kstore, u, o))

\* The caller has taken the result of the call and goes on; the record of
\* the call is dropped.  After an abort there is no caller any more.
CallerResumes ==
    /\ op # "none"
    /\ ret # "abort"
    /\ op' = "none"
    /\ arg' = 0
    /\ ret' = "none"
    /\ trace' = <<>>
    /\ diag' = <<>>
    /\ calls' = <<>>
    /\ pre' = Fields
    /\ twin' = [ret |-> "none", tr |-> <<>>, connected |-> connected,
                baud |-> baud, device_baud |-> device_baud]
    /\ reads' = <<>>
    /\ out' = <<>>
    /\ UNCHANGED <<connected, baud, device_baud, platform, caps>>

Next ==
    \/ EnterCommandMode
    \/ ExitCommandMode
    \/ Reboot
    \/ StoreSettings
    \/ SetBaud
    \/ CallerResumes

Spec == Init /\ [][Next]_vars

\* the sessions in which every function pointer of the config is set
AllCapabilities ==
    [write_function |-> TRUE, read_function |-> TRUE, delay_function |-> TRUE,
     baud_rate_initializer |-> TRUE, log_function |-> TRUE]

InitAllCaps == Init /\ caps = AllCapabilities

SpecAllCaps == InitAllCaps /\ [][Next]_vars

\* a caller that never changes the device baud
NextNoSetBaud ==
    \/ EnterCommandMode
    \/ ExitCommandMode
    \/ Reboot
    \/ StoreSettings
    \/ CallerResumes

SpecNoSetBaud == InitAllCaps /\ [][NextNoSetBaud]_vars

(***************************************************************************)
(* The private functions on their own: a caller inside the library hands   *)
(* them inputs of its choice.  The session is as constructed.              *)
(***************************************************************************)
\* the bytes among the results of read_function
IsByte(x) == x # NONE
BytesOf(polls) == SelectSeq(polls, IsByte)

\* a poll gives the byte the response expects next ("b"), another byte
\* ("x") or no byte ("e")
ShapeKinds == {"b", "x", "e"}
Shapes == UNION {[1..n -> ShapeKinds] : n \in 0..MaxPolls}

\* the results of read_function a shape stands for; pos is the place of
\* the next byte in the response
RECURSIVE ShapeScript(_, _, _)
ShapeScript(shape, expected, pos) ==
    IF shape = <<>> THEN <<>>
    ELSE IF Head(shape) = "e"
    THEN <<NONE>> \o ShapeScript(Tail(shape), expected, pos)
    ELSE <<IF Head(shape) = "b" /\ pos <= Len(expected)
           THEN expected[pos] ELSE WRONG>>
         \o ShapeScript(Tail(shape), expected, pos + 1)

\* the commands and expected responses the public functions hand to
\* command_request under the profile of the session
RequestInputs ==
    LET Pair(d) == [command |-> d.request_format, expected |-> d.expected_response]
        ds == {platform.enter_command_mode_command,
               platform.exit_command_mode_command,
               platform.store_settings_command}
    IN  {Pair(d) : d \in {x \in ds : ~x.request_format.null
                                     /\ ~x.expected_response.null}}

Request ==
    /\ Idle
    /\ \E inp \in RequestInputs, shape \in Shapes,
          lu \in Relevant(caps.log_function, SinkOutcomes) :
          LET script == ShapeScript(shape, inp.expected.s, 1)
          IN  Commit("command_request",
                     [command |-> inp.command.s, expected |-> inp.expected.s,
                      script |-> script],
                     command_request(Begin(lu), inp.command, inp.expected,
                                     script, "abort"),
                     command_request(BeginTwin(lu), inp.command, inp.expected,
                                     script, "abort"))

\* to read a poll gives a byte or none; which byte makes no difference
ReadShapes == {shape \in Shapes : \A i \in 1..Len(shape) : shape[i] # "b"}

\* read(config, buffer, size, max_retries).  The library calls read with
\* max_retries = MAX_RETRIES; every budget from 1 up to MaxRetries is drawn.
Read ==
    /\ Idle
    /\ \E size \in 0..MaxLen, max_retries \in 1..MaxRetries, shape \in ReadShapes :
          LET script == ShapeScript(shape, <<>>, 1)
              r == read(Begin("garbage"), size, max_retries, script)
          IN  CommitValue("read",
                          [size |-> size, max_retries |-> max_retries,
                           script |-> script],
                          r, read(BeginTwin("garbage"), size, max_retries, script),
                          r.buf)

\* the responses check_response is handed on its own: right and wrong
\* bytes, fewer, as many and more than expected, and a byte that is 0
Responses(expected) ==
    {BytesOf(ShapeScript(shape, expected, 1)) : shape \in Shapes}
        \cup {<<"NUL">>}

\* check_response(config, response, response_length, expected,
\* expected_length)
CheckResponse ==
    /\ Idle
    /\ \E inp \in RequestInputs :
       \E response \in Responses(inp.expected.s),
          lu \in Relevant(caps.log_function, SinkOutcomes) :
          Commit("check_response",
                 [response |-> response, expected |-> inp.expected.s],
                 check_response(Begin(lu), response, inp.expected.s),
                 check_response(BeginTwin(lu), response, inp.expected.s))

\* The head of at_commander_set_baud: the mapper of the profile, or the
\* passthrough when it has none, and the request sprintf writes.
MappedBaud(b, uninit) ==
    IF platform.baud_rate_mapper = "NULL"
    THEN passthrough_baud_rate_mapper(b)
    ELSE xbee_baud_rate_mapper(b, uninit)

SetBaudCommand(b, uninit) ==
    sprintf(platform.set_baud_rate_command.request_format.s, MappedBaud(b, uninit))

\* the bauds the mapper and sprintf are handed on their own
FormatInputs ==
    XBeeRates \cup BaudInputs
        \cup {ALL_VALID_BAUD_RATES[i] : i \in 1..Len(ALL_VALID_BAUD_RATES)}

FormatSetBaud ==
    /\ Idle
    /\ \E b \in FormatInputs :
       \E u \in Relevant(b \notin XBeeRates /\ platform.baud_rate_mapper # "NULL",
                         UninitValues) :
          CommitValue("format_set_baud", [baud |-> b], Begin("garbage"),
                      BeginTwin("garbage"),
                      [mapped |-> MappedBaud(b, u), command |-> SetBaudCommand(b, u)])

NextPrimitives ==
    \/ Request
    \/ Read
    \/ CheckResponse
    \/ FormatSetBaud

\* No private function of these uses config->baud_rate_initializer.
InitPrimitives == Init /\ caps.baud_rate_initializer

SpecPrimitives == InitPrimitives /\ [][NextPrimitives]_vars

(***************************************************************************)
(* What the record of a call shows.                                        *)
(***************************************************************************)
IsProbe(c) == c.f = "initialize_baud"
IsRequest(c) == c.f = "command_request"
IsResult(c) == c.f = "command_request returned"
IsStore(c) == c.f = "at_commander_store_settings"
IsWrite(e) == e.k = "write"

\* the candidate bauds handed to initialize_baud, the requests handed to
\* command_request and what command_request returned (1 true, 0 false)
Probes == SelectSeq(calls, IsProbe)
Requests == SelectSeq(calls, IsRequest)
Results == SelectSeq(calls, IsResult)
Stores == SelectSeq(calls, IsStore)

\* the result of the i-th request of the call: 1, 0, or -1 when the request
\* did not return
ResultOf(i) == IF i >= 1 /\ i <= Len(Results) THEN Results[i].n ELSE -1

\* the bytes handed to write_function, in order
Written == LET w == SelectSeq(trace, IsWrite) IN [i \in 1..Len(w) |-> w[i].c]

Returned == ret \in {"true", "false"}
EnterRequest == platform.enter_command_mode_command.request_format.s
Probing == op = "enter_command_mode" /\ ~pre.connected

\* the calls of a discovery pass: probe, request, result, probe, request, ...
\* through the first k candidates in list order, a success only at the last
DiscoveryOrder ==
    LET k == Len(Probes)
    IN  /\ k >= 1 /\ k <= Len(VALID_BAUD_RATES)
        /\ \A i \in 1..k : Probes[i].n = VALID_BAUD_RATES[i]
        /\ \A i, j \in 1..k : i # j => Probes[i].n # Probes[j].n
        /\ Len(Requests) = k
        /\ \A i \in 1..k : Requests[i].c = EnterRequest
        /\ Len(Results) \in {k - 1, k}
        /\ \A i \in 1..Len(calls) :
              CASE i % 3 = 1 -> IsProbe(calls[i])
                [] i % 3 = 2 -> IsRequest(calls[i])
                [] OTHER -> IsResult(calls[i])
        /\ \A i \in 1..(k - 1) : ResultOf(i) = 0

\* C1: enter_command_mode called while Disconnected probes the candidate
\* list in list order, issues the enter request once per probed candidate,
\* stops at the first candidate whose round trip succeeds and probes no
\* baud twice; if no candidate succeeds it returns false and the session
\* stays Disconnected.
C1_DiscoveryInOrder ==
    Probing =>
        /\ DiscoveryOrder
        /\ (\A i \in 1..Len(Probes) : ResultOf(i) # 1)
              => (ret = "false" /\ ~connected)

\* C1, for the calls that return: the order of the probes holds of every
\* call, and a call that returns after no success has probed every candidate,
\* returns false and leaves the session Disconnected.
C1_DiscoveryWhenReturning ==
    Probing =>
        /\ DiscoveryOrder
        /\ (\A i \in 1..Len(Probes) : ResultOf(i) # 1) => ~connected
        /\ (Returned /\ \A i \in 1..Len(Probes) : ResultOf(i) # 1)
              => (ret = "false" /\ Len(Probes) = Len(VALID_BAUD_RATES))

\* the candidate at which the discovery pass of the call stopped
LastProbed == VALID_BAUD_RATES[Len(Probes)]
EnteredByProbing == Probing /\ ret = "true"

\* C2: whenever enter_command_mode returns true after probing, the session
\* is in CommandMode and its recorded UART baud is the candidate baud at
\* which the enter round trip succeeded.
C2_BaudIsSuccessfulCandidate ==
    EnteredByProbing => (connected /\ baud = LastProbed)

\* C2, amended: whenever enter_command_mode returns true after probing, the
\* session is in CommandMode and the last round trip of the pass is the one
\* that succeeded; the recorded UART baud is that candidate's baud when a
\* baud initializer is configured, and is what it was before the call when
\* none is configured.
C2_BaudRecordedByInitializer ==
    EnteredByProbing =>
        /\ connected
        /\ ResultOf(Len(Probes)) = 1
        /\ caps.baud_rate_initializer => baud = LastProbed
        /\ ~caps.baud_rate_initializer => baud = pre.baud

\* C2 witness: the device did not answer at 1200 and answered at 9600
C2_Witness ==
    /\ EnteredByProbing
    /\ caps.baud_rate_initializer
    /\ Len(Probes) = 2
    /\ ResultOf(1) = 0
    /\ baud = 9600
    /\ pre.baud # 9600

\* C3: enter_command_mode on a session already in CommandMode returns true,
\* makes no transport call (no write, no read poll, no delay, no baud
\* reconfiguration) and changes no field of the session.
C3_EnterIsIdempotent ==
    (op = "enter_command_mode" /\ pre.connected) =>
        /\ ret = "true"
        /\ trace = <<>>
        /\ Fields = pre

\* C3 witness: a second enter_command_mode, on a session a call has opened
C3_Witness ==
    /\ op = "enter_command_mode"
    /\ pre.connected
    /\ pre.baud = 9600
    /\ ret = "true"

ExitDescriptor == platform.exit_command_mode_command

\* C4: exit_command_mode called while Disconnected returns true without
\* transport traffic; called in CommandMode it issues the exit request once,
\* returns true with the session Disconnected if the exit round trip
\* matched, and otherwise returns false with the session still in
\* CommandMode.
C4_ExitCommandMode ==
    (op = "exit_command_mode") =>
        /\ ~pre.connected => (ret = "true" /\ trace = <<>> /\ ~connected)
        /\ pre.connected =>
              /\ Len(Requests) = 1
              /\ ~ExitDescriptor.request_format.null
              /\ Requests[1].c = ExitDescriptor.request_format.s
              /\ ResultOf(1) = 1 => (ret = "true" /\ ~connected)
              /\ ResultOf(1) # 1 => (ret = "false" /\ connected)

\* C4, for the profiles that have an exit descriptor and the calls that
\* return
C4_ExitWhenReturning ==
    (op = "exit_command_mode" /\ Returned) =>
        /\ ~pre.connected => (ret = "true" /\ trace = <<>> /\ ~connected)
        /\ (pre.connected /\ ~ExitDescriptor.request_format.null) =>
              /\ Len(Requests) = 1
              /\ Requests[1].c = ExitDescriptor.request_format.s
              /\ ResultOf(1) = 1 => (ret = "true" /\ ~connected)
              /\ ResultOf(1) # 1 => (ret = "false" /\ connected)

\* C5: whenever set_baud_rate returns false the recorded device baud is what
\* it was before the call.
C5_FailedSetBaudKeepsDeviceBaud ==
    (op = "set_baud" /\ ret = "false") => device_baud = pre.device_baud

\* C5 witness: command mode was entered during the call, the set-baud round
\* trip failed, and another device baud had been recorded before
C5_Witness ==
    /\ op = "set_baud"
    /\ ret = "false"
    /\ ~pre.connected
    /\ connected
    /\ Len(Requests) = Len(Probes) + 1
    /\ pre.device_baud # 0
    /\ pre.device_baud # arg

\* C5 witness: command mode could not be entered
C5_WitnessNoEntry ==
    /\ op = "set_baud"
    /\ ret = "false"
    /\ ~connected
    /\ pre.device_baud # 0
    /\ pre.device_baud # arg

\* the place of the set-baud request among the requests of a set_baud call
SetBaudIndex == Len(Probes) + 1

\* C6: set_baud_rate returns true exactly when command mode was entered (or
\* open) and the set-baud round trip matched; then the recorded device baud
\* is the requested baud and store_settings is attempted once, whatever
\* store_settings does.
C6_SetBaudReturnsMatch ==
    (op = "set_baud") =>
        /\ ret = "true" <=> (connected /\ ResultOf(SetBaudIndex) = 1)
        /\ ret = "true" => (device_baud = arg /\ Len(Stores) = 1)

\* C6, for the calls that return
C6_SetBaudWhenReturning ==
    (op = "set_baud" /\ Returned) =>
        /\ ret = "true" <=> (connected /\ ResultOf(SetBaudIndex) = 1)
        /\ ret = "true" => (device_baud = arg /\ Len(Stores) = 1)

StoreDescriptor == platform.store_settings_command
StoreSupported ==
    ~StoreDescriptor.request_format.null /\ ~StoreDescriptor.expected_response.null

\* C7: without a store-settings descriptor store_settings returns false and
\* makes no transport call; with one it issues the request once and returns
\* the result of that round trip.
C7_StoreSettings ==
    (op = "store_settings") =>
        /\ ~StoreSupported => (ret = "false" /\ trace = <<>>)
        /\ StoreSupported =>
              /\ Len(Requests) = 1
              /\ Requests[1].c = StoreDescriptor.request_format.s
              /\ \/ ret = "true" /\ ResultOf(1) = 1
                 \/ ret = "false" /\ ResultOf(1) = 0

\* C7, for the calls that return
C7_StoreWhenReturning ==
    (op = "store_settings" /\ Returned) =>
        /\ ~StoreSupported => (ret = "false" /\ trace = <<>>)
        /\ StoreSupported =>
              /\ Len(Requests) = 1
              /\ Requests[1].c = StoreDescriptor.request_format.s
              /\ \/ ret = "true" /\ ResultOf(1) = 1
                 \/ ret = "false" /\ ResultOf(1) = 0

RebootLiteral ==
    IF platform.reboot_command.request_format.null THEN <<>>
    ELSE platform.reboot_command.request_format.s

\* the bytes the probes of the call wrote: the enter request, once a probe
RECURSIVE Repeat(_, _)
Repeat(chars, n) == IF n <= 0 THEN <<>> ELSE chars \o Repeat(chars, n - 1)
ProbeBytes == IF caps.write_function THEN Repeat(EnterRequest, Len(Probes)) ELSE <<>>

\* C8: reboot returns true exactly when command mode was entered (or open);
\* then it writes the bytes of the profile's reboot request, in order, and
\* polls no response; when entry fails it returns false and writes no reboot
\* byte.
C8_Reboot ==
    (op = "reboot") =>
        /\ ret = "true" <=> connected
        /\ connected =>
              /\ Written = ProbeBytes \o
                    (IF caps.write_function THEN RebootLiteral ELSE <<>>)
              /\ caps.write_function =>
                    \A i \in 1..Len(RebootLiteral) :
                        trace[Len(trace) + 1 - i].k = "write"
        /\ ~connected => (ret = "false" /\ Written = ProbeBytes)

\* C8, for the profiles that have a reboot request and the calls that return
C8_RebootWhenReturning ==
    (op = "reboot" /\ Returned /\ ~platform.reboot_command.request_format.null) =>
        /\ ret = "true" <=> connected
        /\ connected =>
              /\ Written = ProbeBytes \o
                    (IF caps.write_function THEN RebootLiteral ELSE <<>>)
              /\ caps.write_function =>
                    \A i \in 1..Len(RebootLiteral) :
                        trace[Len(trace) + 1 - i].k = "write"
        /\ ~connected => (ret = "false" /\ Written = ProbeBytes)

\* a byte read through a NULL descriptor went out or was asked for
UsedAbsentDescriptor ==
    \/ \E i \in 1..Len(trace) : trace[i].c = UNKNOWN
    \/ \E i \in 1..Len(calls) : \E j \in 1..Len(calls[i].c) : calls[i].c[j] = UNKNOWN

WellDefined ==
    /\ connected \in BOOLEAN
    /\ baud \in {0} \cup {VALID_BAUD_RATES[i] : i \in 1..Len(VALID_BAUD_RATES)}
    /\ device_baud \in {0} \cup BaudInputs

\* C9: for every profile, one without an exit, store or reboot descriptor
\* too, and from every session state, each public operation completes with a
\* boolean, never by an abort or an access through an absent descriptor, and
\* leaves the session in a well-defined state.
C9_OperationsComplete ==
    (op # "none") => (Returned /\ ~UsedAbsentDescriptor /\ WellDefined)

CountKind(k) == Len(SelectSeq(trace, LAMBDA e : e.k = k))

\* C10: whichever transport capabilities are absent, each operation returns
\* a boolean; without write nothing is written, without delay nothing waits,
\* without a baud initializer the UART is not reconfigured, and without read
\* a request fails instead of aborting.
C10_CapabilitiesOptional ==
    (op # "none") =>
        /\ Returned
        /\ ~caps.write_function => CountKind("write") = 0
        /\ ~caps.delay_function => CountKind("delay") = 0
        /\ ~caps.baud_rate_initializer => CountKind("set_baud") = 0
        /\ ~caps.read_function => \A i \in 1..Len(Requests) : ResultOf(i) = 0

\* the call handed the sink a response to format with "%s"
LoggedStrings ==
    \E i \in 1..Len(diag) : diag[i].id = "Expected %s response but got %s"

\* C10, for write, delay and the baud initializer alone, in the calls that
\* neither use an absent descriptor nor hand a response to the sink
C10_WriteDelayBaudOptional ==
    (op # "none" /\ caps.read_function /\ ~UsedAbsentDescriptor /\ op # "set_baud"
        /\ ~(op \in {"exit_command_mode", "reboot"} /\ platform.name = "XBEE")
        /\ ~LoggedStrings)
    => /\ Returned
       /\ ~caps.write_function => CountKind("write") = 0
       /\ ~caps.delay_function => CountKind("delay") = 0
       /\ ~caps.baud_rate_initializer => CountKind("set_baud") = 0

\* the twin session saw and did what this session saw and did
SameAsTwin ==
    /\ twin.ret = ret
    /\ twin.tr = trace
    /\ twin.connected = connected
    /\ twin.baud = baud
    /\ twin.device_baud = device_baud

\* C11: two sessions that differ only in whether a diagnostic sink is
\* configured, put through the same operation against the same device,
\* produce the same return value, the same sequence of transport calls and
\* the same connection flag and baud fields.
C11_SinkDoesNotChangeBehaviour ==
    (op # "none") => SameAsTwin

\* C11, for the calls that return in the session with the sink, and for the
\* calls that hand no response to the sink
C11_SinkWhenReturning ==
    /\ (op # "none" /\ Returned) => SameAsTwin
    /\ (op # "none" /\ ~LoggedStrings) => SameAsTwin

\* an enter round trip of the call matched: the probes are the first
\* requests of a call
EnterMatched == \E i \in 1..Len(Probes) : ResultOf(i) = 1

\* C12: the connection flag goes from false to true only inside an
\* enter_command_mode, set_baud_rate or reboot call in which an enter round
\* trip matched, and from true to false only inside an exit_command_mode
\* call whose exit round trip matched; store_settings and a call whose round
\* trips all fail leave the flag as it was; the recorded device baud changes
\* only in a set_baud_rate call whose set-baud round trip matched.
C12_FlagChangesOnlyOnMatch ==
    /\ (~pre.connected /\ connected) =>
          /\ op \in {"enter_command_mode", "set_baud", "reboot"}
          /\ EnterMatched
    /\ (pre.connected /\ ~connected) =>
          /\ op = "exit_command_mode"
          /\ Len(Requests) = 1
          /\ ResultOf(1) = 1
    /\ (op = "store_settings") => connected = pre.connected
    /\ (\A i \in 1..Len(Requests) : ResultOf(i) # 1) =>
          (connected = pre.connected /\ device_baud = pre.device_baud)
    /\ (device_baud # pre.device_baud) =>
          /\ op = "set_baud"
          /\ ResultOf(SetBaudIndex) = 1
          /\ device_baud = arg

\* C12 witness: a set_baud_rate call on a Disconnected session entered
\* command mode at the second candidate and changed the device baud
C12_Witness ==
    /\ op = "set_baud"
    /\ ~pre.connected
    /\ connected
    /\ ResultOf(1) = 0
    /\ ResultOf(2) = 1
    /\ ResultOf(SetBaudIndex) = 1
    /\ device_baud # pre.device_baud

\* C12 witness: an exit_command_mode call whose round trip failed left the
\* session in CommandMode, and one whose round trip matched closed it
C12_WitnessExitFailed ==
    /\ op = "exit_command_mode"
    /\ pre.connected
    /\ connected
    /\ ResultOf(1) = 0

C12_WitnessExitMatched ==
    /\ op = "exit_command_mode"
    /\ pre.connected
    /\ ~connected
    /\ ResultOf(1) = 1

RECURSIVE Flatten(_)
Flatten(seqs) == IF seqs = <<>> THEN <<>> ELSE Head(seqs) \o Flatten(Tail(seqs))

\* the bytes of the requests of the call, in order
RequestBytes == Flatten([i \in 1..Len(Requests) |-> Requests[i].c])

\* the requests of the call that follow its probes
OwnRequests == SubSeq(Requests, Len(Probes) + 1, Len(Requests))

\* the call went through a discovery pass in which no candidate answered
FullyFailed ==
    /\ op \in {"enter_command_mode", "set_baud", "reboot"}
    /\ ~pre.connected
    /\ ret = "false"
    /\ ~connected

\* C13: within one call exit_command_mode, store_settings and set_baud_rate
\* each send their own request at most once, also when its round trip
\* fails; each response read makes at most MAX_RETRIES (3) empty polls;
\* enter_command_mode sends the enter request at most once per candidate
\* baud, and a discovery that fails at every candidate sends it exactly as
\* many times as there are candidates.
C13_NoRetryAboveRead ==
    /\ (op = "exit_command_mode") => Len(Requests) <= 1
    /\ (op = "store_settings") => Len(Requests) <= 1
    /\ (op = "set_baud") =>
          /\ Len(OwnRequests) <= 2
          /\ ResultOf(SetBaudIndex) = 0 => Len(OwnRequests) = 1
          /\ Len(OwnRequests) = 2 =>
                /\ ResultOf(SetBaudIndex) = 1
                /\ OwnRequests[2].c = StoreDescriptor.request_format.s
                /\ OwnRequests[1].c # OwnRequests[2].c
    /\ (op \in {"enter_command_mode", "reboot"}) => OwnRequests = <<>>
    /\ Len(reads) <= Len(Requests)
    /\ \A i \in 1..Len(reads) : reads[i].empty <= MAX_RETRIES
    /\ Len(Probes) <= Len(VALID_BAUD_RATES)
    /\ \A i, j \in 1..Len(Probes) : i # j => Probes[i].n # Probes[j].n
    /\ \A i \in 1..Len(Probes) : Requests[i].c = EnterRequest
    /\ \A i \in 1..Len(OwnRequests) : OwnRequests[i].c # EnterRequest
    /\ (caps.write_function /\ op # "reboot") => Written = RequestBytes
    /\ FullyFailed =>
          /\ Len(Probes) = Len(VALID_BAUD_RATES)
          /\ caps.write_function =>
                Written = Repeat(EnterRequest, Len(VALID_BAUD_RATES))

\* C13 witness: a discovery that failed at every candidate, the device
\* having sent a part of the response each time, wrote the enter request
\* once per candidate and made three empty polls per read
C13_Witness ==
    /\ op = "enter_command_mode"
    /\ FullyFailed
    /\ caps.write_function
    /\ Len(reads) = Len(VALID_BAUD_RATES)
    /\ \A i \in 1..Len(reads) : reads[i].empty = MAX_RETRIES /\ reads[i].bytes > 0

\* C13 witness: a set_baud_rate call whose set-baud round trip failed
C13_WitnessSetBaudFailed ==
    /\ op = "set_baud"
    /\ ret = "false"
    /\ connected
    /\ ResultOf(SetBaudIndex) = 0
    /\ Len(OwnRequests) = 1

IsPoll(e) == e.k = "read"

\* the results read_function gave during the call, and the bytes among them
Polled == LET q == SelectSeq(trace, IsPoll) IN [i \in 1..Len(q) |-> q[i].c]
Received == BytesOf(Polled)

\* What a read of n bytes with a budget of empty polls takes from a device
\* that gives the results of script and then no byte any more: the polls up
\* to the first place where n bytes have come or the budget is used up.
Padded(script, budget) == script \o [i \in 1..budget |-> NONE]

StopsAt(script, n, budget) ==
    LET p == Padded(script, budget)
        Done(k) == \/ Len(BytesOf(SubSeq(p, 1, k))) >= n
                   \/ k - Len(BytesOf(SubSeq(p, 1, k))) >= budget
    IN  CHOOSE k \in 0..Len(p) : Done(k) /\ \A j \in 0..(k - 1) : ~Done(j)

Taken(script, n, budget) == SubSeq(Padded(script, budget), 1, StopsAt(script, n, budget))
Collects(script, n, budget) == BytesOf(Taken(script, n, budget))

\* C14: command_request returns true if and only if the read collected
\* exactly as many bytes as the expected response has, within the budget of
\* MAX_RETRIES (3) empty polls, and every byte equals the byte of the
\* expected response at its place; a short read (no byte at all, too) or a
\* differing byte yields false; the read takes no more bytes from the
\* transport than the expected response has.
C14_RequestReturnsMatch ==
    (op = "command_request") =>
        LET got == Collects(arg.script, Len(arg.expected), MAX_RETRIES)
        IN  /\ ret = "true" <=> got = arg.expected
            /\ got # arg.expected => ret = "false"
            /\ Len(Received) <= Len(arg.expected)

\* C14, for the calls that return
C14_RequestWhenReturning ==
    (op = "command_request") =>
        LET got == Collects(arg.script, Len(arg.expected), MAX_RETRIES)
        IN  /\ ret = "true" => got = arg.expected
            /\ Returned => (ret = "true" <=> got = arg.expected)
            /\ Len(Received) <= Len(arg.expected)
            /\ Returned => Received = got
            /\ Returned => Polled = Taken(arg.script, Len(arg.expected), MAX_RETRIES)

\* the response came whole after two empty polls
C14_WitnessMatchAfterGaps ==
    /\ op = "command_request"
    /\ ret = "true"
    /\ Len(reads) = 1
    /\ reads[1].empty = 2
    /\ Len(arg.expected) >= 2

\* the right number of bytes, one of them wrong
C14_WitnessWrongByte ==
    /\ op = "command_request"
    /\ ret = "false"
    /\ Len(Received) = Len(arg.expected)
    /\ Received[1] = arg.expected[1]

\* a short read of a right prefix
C14_WitnessShort ==
    /\ op = "command_request"
    /\ ret = "false"
    /\ Len(Received) = Len(arg.expected) - 1
    /\ Received = SubSeq(arg.expected, 1, Len(Received))

IsEmptyPoll(e) == e.k = "read" /\ e.c = NONE
IsDelay(e) == e.k = "delay"
EmptyPolls == Len(SelectSeq(trace, IsEmptyPoll))

\* every empty poll is followed at once by one delay of RETRY_DELAY_MS, and
\* there is no other delay
DelayPerEmptyPoll ==
    /\ \A i \in 1..Len(trace) :
          IsEmptyPoll(trace[i]) =>
              /\ i < Len(trace)
              /\ trace[i + 1] = Ev("delay", "", RETRY_DELAY_MS)
    /\ Len(SelectSeq(trace, IsDelay)) = EmptyPolls

\* C15: read(size, max_retries) returns whatever the transport does; it
\* makes at most max_retries empty polls, each followed by one delay of 50
\* ms, counted over the whole read and not set back by a byte received; it
\* makes at most size + max_retries - 1 polls; it returns fewer than size
\* bytes if and only if exactly max_retries empty polls occurred before size
\* bytes were collected.
C15_ReadIsBounded ==
    (op = "read") =>
        /\ caps.read_function => ret = "value"
        /\ EmptyPolls <= arg.max_retries
        /\ Len(Polled) <= arg.size + arg.max_retries - 1
        /\ caps.delay_function => DelayPerEmptyPoll
        /\ ~caps.delay_function => Len(SelectSeq(trace, IsDelay)) = 0
        /\ (ret = "value") =>
              /\ Polled = Taken(arg.script, arg.size, arg.max_retries)
              /\ out = BytesOf(Polled)
              /\ Len(out) <= arg.size
              /\ Len(out) < arg.size <=> EmptyPolls = arg.max_retries

\* C15 witness: bytes between the empty polls did not set the count back:
\* the read stopped at the third empty poll with two of three bytes
C15_Witness ==
    /\ op = "read"
    /\ ret = "value"
    /\ arg.size = 3
    /\ arg.max_retries = 3
    /\ Polled = <<NONE, WRONG, NONE, WRONG, NONE>>
    /\ Len(out) = 2

\* C15 witness: a full read after two empty polls
C15_WitnessFull ==
    /\ op = "read"
    /\ ret = "value"
    /\ arg.size = 3
    /\ arg.max_retries = 3
    /\ Len(out) = 3
    /\ EmptyPolls = 2

LengthDiagnostic(e, r) ==
    [id |-> "Expected %d bytes in response but received %d", a |-> e, b |-> r]
StringsDiagnostic == [id |-> "Expected %s response but got %s", a |-> 0, b |-> 0]

\* what check_response logs, in order
LoggedLength == \E i \in 1..Len(diag) : diag[i].id = LengthDiagnostic(0, 0).id

\* C16: whenever check_response returns false and a sink is configured, it
\* has logged the expected and the actual length, and it has logged the two
\* strings if and only if at least one byte was received; when it returns
\* true it has logged nothing.
C16_MismatchLogsLength ==
    (op = "check_response" /\ caps.log_function) =>
        /\ ret = "false" =>
              /\ LoggedLength
              /\ LoggedStrings <=> Len(arg.response) > 0
        /\ ret = "true" => diag = <<>>

\* C16, amended: whenever check_response returns false and a sink is
\* configured, it has logged the expected and the actual length if and only
\* if the two lengths differ, and after that the two strings if and only if
\* at least one byte was received; when it returns true, and when no sink is
\* configured, it has logged nothing.
C16_MismatchLogsLengthIfDiffers ==
    (op = "check_response") =>
        LET e == Len(arg.expected)
            r == Len(arg.response)
        IN  /\ (ret = "false" /\ caps.log_function) =>
                  diag = (IF r # e THEN <<LengthDiagnostic(e, r)>> ELSE <<>>)
                         \o (IF r > 0 THEN <<StringsDiagnostic>> ELSE <<>>)
            /\ ret = "true" => (diag = <<>> /\ arg.response = arg.expected)
            /\ ret = "false" => arg.response # arg.expected
            /\ ~caps.log_function => diag = <<>>

\* C16 witness: a response of the expected length with a wrong byte is
\* logged as two strings, without the lengths
C16_Witness ==
    /\ op = "check_response"
    /\ caps.log_function
    /\ ret = "false"
    /\ Len(arg.response) = Len(arg.expected)
    /\ diag = <<StringsDiagnostic>>

\* C16 witness: no byte at all is logged as two lengths, without strings
C16_WitnessNoByte ==
    /\ op = "check_response"
    /\ caps.log_function
    /\ ret = "false"
    /\ arg.response = <<>>
    /\ diag = <<LengthDiagnostic(Len(arg.expected), 0)>>

\* C16 witness: a short response is logged as two lengths and two strings
C16_WitnessShort ==
    /\ op = "check_response"
    /\ caps.log_function
    /\ ret = "false"
    /\ Len(arg.response) > 0
    /\ Len(diag) = 2

\* the standard baud rates, in the order of their codes
XBeeOrder == <<1200, 2300, 4800, 9600, 19200, 38400, 57600, 115200>>

\* C17: the mapper of the XBee profile sends 1200, 2300, 4800, 9600, 19200,
\* 38400, 57600, 115200 to the codes 0..7 in that order, so that no two of
\* them get the same code; the mapper used when the profile has none is the
\* identity, and the value in the request is the baud asked for.
C17_BaudMapping ==
    (op = "format_set_baud") =>
        /\ (platform.baud_rate_mapper # "NULL" /\ arg.baud \in XBeeRates) =>
              /\ out.mapped \in 0..7
              /\ XBeeOrder[out.mapped + 1] = arg.baud
        /\ (platform.baud_rate_mapper = "NULL") =>
              /\ out.mapped = arg.baud
              /\ out.command = <<"S", "U", ",">> \o ToDec(arg.baud) \o <<"CR", "LF">>

\* C17 witness: 115200 under the XBee profile
C17_Witness ==
    /\ op = "format_set_baud"
    /\ platform.baud_rate_mapper # "NULL"
    /\ arg.baud = 115200
    /\ out.mapped = 7

\* C17 witness: 9600 under the XBee profile, and under the RN-42 profile
C17_Witness9600 ==
    /\ op = "format_set_baud"
    /\ platform.baud_rate_mapper # "NULL"
    /\ arg.baud = 9600
    /\ out.mapped = 3

C17_WitnessPassthrough ==
    /\ op = "format_set_baud"
    /\ platform.baud_rate_mapper = "NULL"
    /\ arg.baud = 9600
    /\ out.command = <<"S", "U", ",", "9", "6", "0", "0", "CR", "LF">>

\* the expected responses of the descriptors of the profile
ExpectedResponses ==
    LET ds == {platform.enter_command_mode_command,
               platform.exit_command_mode_command,
               platform.set_baud_rate_command,
               platform.store_settings_command,
               platform.reboot_command}
    IN  {d.expected_response.s : d \in {x \in ds : ~x.expected_response.null}}

CandidateBauds == {ALL_VALID_BAUD_RATES[i] : i \in 1..Len(ALL_VALID_BAUD_RATES)}

\* C18: for every built-in profile and every baud of the candidate list the
\* set-baud request, with the mapped baud in decimal and its terminator,
\* fits in the COMMAND_SIZE (5) characters of the buffer it is formatted
\* into, and every expected response fits in the MAX_RESPONSE_LENGTH (8)
\* bytes of the response buffer.
C18_BuffersSuffice ==
    /\ (op = "format_set_baud" /\ arg.baud \in CandidateBauds) =>
          Len(out.command) + 1 <= COMMAND_SIZE
    /\ \A e \in ExpectedResponses : Len(e) <= MAX_RESPONSE_LENGTH

\* C18, the response buffer alone; and the set-baud request never fits
C18_ResponsesFit ==
    /\ \A e \in ExpectedResponses : Len(e) <= MAX_RESPONSE_LENGTH
    /\ \A i \in 1..Len(reads) : reads[i].bytes <= MAX_RESPONSE_LENGTH
    /\ (op = "format_set_baud") => Len(out.command) + 1 > COMMAND_SIZE

IsReconfiguration(e) == e.k = "set_baud"

\* the bauds the host UART was set to during the call, in order
Reconfigured ==
    LET q == SelectSeq(trace, IsReconfiguration) IN [i \in 1..Len(q) |-> q[i].n]

\* at_commander_enter_command_mode, called in the state at hand, returns
\* true, makes no transport call and changes no field, whatever the device
\* would answer
EnterIsNoOp ==
    \A ks \in KindSeqs :
        LET r == at_commander_enter_command_mode(Begin("garbage"), ks)
        IN  /\ Result(r) = "true"
            /\ r.tr = <<>>
            /\ r.connected = connected
            /\ r.baud = baud
            /\ r.device_baud = device_baud

Succeeded == op \in {"set_baud", "reboot"} /\ ret = "true"

\* C19: a successful set_baud_rate or reboot leaves the session in
\* CommandMode with the recorded UART baud as it was before the call, and an
\* enter_command_mode call made next returns true without traffic.
C19_BaudUnchanged ==
    Succeeded =>
        /\ connected
        /\ baud = pre.baud
        /\ EnterIsNoOp

\* C19, amended: a successful set_baud_rate or reboot leaves the session in
\* CommandMode.  The host UART is set to the candidates the call probed and
\* to nothing else, so the recorded UART baud is as before the call when the
\* session was in CommandMode already or has no baud initializer, and is the
\* candidate at which the call entered command mode otherwise; it is not set
\* to the new device baud.  An enter_command_mode call made next returns
\* true without traffic.
C19_BaudLeftAtEntry ==
    Succeeded =>
        /\ connected
        /\ pre.connected => (baud = pre.baud /\ Probes = <<>>)
        /\ ~caps.baud_rate_initializer => (baud = pre.baud /\ Reconfigured = <<>>)
        /\ (~pre.connected /\ caps.baud_rate_initializer) => baud = LastProbed
        /\ caps.baud_rate_initializer =>
              Reconfigured = [i \in 1..Len(Probes) |-> Probes[i].n]
        /\ op = "set_baud" => device_baud = arg
        /\ op = "reboot" => device_baud = pre.device_baud
        /\ EnterIsNoOp

\* C19 witness: set_baud_rate on a session in CommandMode changed the device
\* baud and left the UART baud, which differs from it
C19_Witness ==
    /\ Succeeded
    /\ op = "set_baud"
    /\ pre.connected
    /\ caps.baud_rate_initializer
    /\ device_baud = arg
    /\ pre.device_baud # arg
    /\ baud # arg
    /\ baud = pre.baud

\* C19 witness: a reboot that had to enter command mode first
C19_WitnessRebootAfterDiscovery ==
    /\ Succeeded
    /\ op = "reboot"
    /\ ~pre.connected
    /\ caps.baud_rate_initializer
    /\ baud = 9600
    /\ pre.baud # 9600

LastCandidate == VALID_BAUD_RATES[Len(VALID_BAUD_RATES)]

\* C20: when enter_command_mode fails at every candidate the connection
\* flag stays false and the recorded device baud is as before the call; the
\* recorded UART baud is not put back: with a baud initializer it is the last
\* entry of the candidate list, to which the host UART was set last, and
\* with none it is as before the call.
C20_FailedDiscoveryLeavesLastBaud ==
    FullyFailed =>
        /\ ~connected
        /\ device_baud = pre.device_baud
        /\ caps.baud_rate_initializer =>
              /\ baud = LastCandidate
              /\ Len(Reconfigured) = Len(VALID_BAUD_RATES)
              /\ Reconfigured[Len(Reconfigured)] = LastCandidate
        /\ ~caps.baud_rate_initializer =>
              /\ baud = pre.baud
              /\ Reconfigured = <<>>

\* C20 witness: a session that had entered command mode at the first
\* candidate, changed the device baud and left command mode fails to enter
\* again: the UART baud moves on to the last candidate
C20_Witness ==
    /\ op = "enter_command_mode"
    /\ FullyFailed
    /\ caps.baud_rate_initializer
    /\ pre.baud = VALID_BAUD_RATES[1]
    /\ baud = LastCandidate
    /\ pre.device_baud # 0
    /\ device_baud = pre.device_baud

\* C20 witness: without a baud initializer
C20_WitnessNoInitializer ==
    /\ op = "enter_command_mode"
    /\ FullyFailed
    /\ ~caps.baud_rate_initializer
    /\ baud = pre.baud
    /\ CountKind("write") = Len(EnterRequest) * Len(VALID_BAUD_RATES)

====
